---- MODULE Spec2Model ----
(***************************************************************************)
(* A model of FlatDocumentStorage (src/embed.rs-flask/tflat.py): a         *)
(* directory tree of text files read into in-memory tables and written     *)
(* back.                                                                   *)
(*                                                                         *)
(* Text is a sequence of one-character strings.  A Python dict is a        *)
(* sequence of <<key, value>> pairs with distinct keys, in insertion       *)
(* order.  The filesystem is a function from the paths that exist (below   *)
(* and including the root, <<>>) to nodes.                                 *)
(***************************************************************************)
EXTENDS Naturals, Sequences, FiniteSets, TLC

VARIABLES
    fs,         \* the tree at self.path: existing path -> node
    read_only,  \* self.read_only
    big_field,  \* self.big_field (None or a field name)
    op,         \* the last call made: "init", "env", "read", "write", "decode"
    data,       \* the snapshot object the caller passed to write(), as it is now
    given,      \* that snapshot as it was when the last write() was called
    fs0,        \* the tree as it was when the last write() was called
    ret,        \* what the last call returned or raised
    werr,       \* what the last write() raised: "ok", or "none" before any
    inp,        \* the text handed to read_doc by the last decode
    envSteps    \* how many entries have been put under the root from outside

vars == <<fs, read_only, big_field, op, data, given, fs0, ret, werr, inp, envSteps>>

-----------------------------------------------------------------------------
(* Bounds *)

MaxDepth == 3       \* longest key, in path components
MaxEnv == 1         \* entries added to the tree before the engine is called
MaxDocs == 1        \* documents of the snapshot given to write()
MaxHdr == 4         \* longest header text enumerated for read_doc

-----------------------------------------------------------------------------
(* Text *)

NL == "\n"
QUOTE == "\""
APOS == "'"
BSL == "\\"
\* The backquote character (a TLA+ string cannot hold it).
BQ == "BQ"

\* Python's None, told apart from every text (a text holds single characters).
None == <<"None">>

RECURSIVE Concat(_)
Concat(ss) == IF ss = <<>> THEN <<>> ELSE Head(ss) \o Concat(Tail(ss))

\* sep.join(parts)
RECURSIVE Join(_, _)
Join(sep, parts) ==
    IF parts = <<>> THEN <<>>
    ELSE IF Len(parts) = 1 THEN parts[1]
    ELSE parts[1] \o sep \o Join(sep, Tail(parts))

\* The least index >= i of s holding c, or 0.
RECURSIVE IndexFrom(_, _, _)
IndexFrom(s, c, i) ==
    IF i > Len(s) THEN 0
    ELSE IF s[i] = c THEN i
    ELSE IndexFrom(s, c, i + 1)

\* str.splitlines(), for text whose only line boundary is "\n".
RECURSIVE SplitLines(_)
SplitLines(s) ==
    IF s = <<>> THEN <<>>
    ELSE LET i == IndexFrom(s, NL, 1)
         IN  IF i = 0 THEN <<s>>
             ELSE <<SubSeq(s, 1, i - 1)>> \o SplitLines(SubSeq(s, i + 1, Len(s)))

\* str.split(sep) for a one-character separator.
RECURSIVE Split(_, _)
Split(s, sep) ==
    LET i == IndexFrom(s, sep, 1)
    IN  IF i = 0 THEN <<s>>
        ELSE <<SubSeq(s, 1, i - 1)>> \o Split(SubSeq(s, i + 1, Len(s)), sep)

Whitespace == {" ", "\t", "\n", "\r", "\f"}

\* line.strip() == ''
IsBlank(line) == \A i \in 1..Len(line) : line[i] \in Whitespace

\* needle in hay
Contains(hay, needle) ==
    \E i \in 0..(Len(hay) - Len(needle)) :
        SubSeq(hay, i + 1, i + Len(needle)) = needle

\* All texts over alphabet abc of length at most n.
RECURSIVE Texts(_, _)
Texts(abc, n) ==
    IF n = 0 THEN {<<>>}
    ELSE LET shorter == Texts(abc, n - 1)
         IN  shorter \cup {Append(t, c) : t \in shorter, c \in abc}

-----------------------------------------------------------------------------
(* dict *)

DictKeys(d) == {d[i][1] : i \in 1..Len(d)}

DictHas(d, k) == k \in DictKeys(d)

DictIndex(d, k) == CHOOSE i \in 1..Len(d) : d[i][1] = k

\* d[k]
DictGet(d, k) == d[DictIndex(d, k)][2]

\* d[k] = v: in place when k is a key, appended otherwise
DictSet(d, k, v) ==
    IF DictHas(d, k)
    THEN [d EXCEPT ![DictIndex(d, k)] = <<k, v>>]
    ELSE Append(d, <<k, v>>)

\* d after del d[k]
DictDel(d, k) ==
    IF DictHas(d, k)
    THEN LET i == DictIndex(d, k)
         IN  SubSeq(d, 1, i - 1) \o SubSeq(d, i + 1, Len(d))
    ELSE d

\* d1 == d2 on Python dicts whose values are not dicts: order does not count
DictEq(d1, d2) ==
    /\ DictKeys(d1) = DictKeys(d2)
    /\ \A k \in DictKeys(d1) : DictGet(d1, k) = DictGet(d2, k)

-----------------------------------------------------------------------------
(* json.dump and json.loads, for objects whose members are strings *)

\* The escape json.dump writes for a character of a string.
EscapeChar(c) ==
    IF c = QUOTE THEN <<BSL, QUOTE>>
    ELSE IF c = BSL THEN <<BSL, BSL>>
    ELSE IF c = NL THEN <<BSL, "n">>
    ELSE IF c = "\t" THEN <<BSL, "t">>
    ELSE IF c = "\r" THEN <<BSL, "r">>
    ELSE IF c = "\f" THEN <<BSL, "f">>
    ELSE <<c>>

JsonString(s) ==
    <<QUOTE>> \o Concat([i \in 1..Len(s) |-> EscapeChar(s[i])]) \o <<QUOTE>>

\* json.dumps(d) with the default separators ', ' and ': '
JsonDump(d) ==
    <<"{">>
    \o Join(<<",", " ">>,
            [i \in 1..Len(d) |->
                JsonString(d[i][1]) \o <<":", " ">> \o JsonString(d[i][2])])
    \o <<"}">>

JsonWs == {" ", "\t", "\n", "\r"}

RECURSIVE SkipWs(_, _)
SkipWs(s, i) ==
    IF i <= Len(s) /\ s[i] \in JsonWs THEN SkipWs(s, i + 1) ELSE i

JsonFail == [ok |-> FALSE, t |-> "none", s |-> <<>>, d |-> <<>>, next |-> 0]

\* What a backslash escape stands for; <<>> when it is no escape.
Unescape(e) ==
    IF e = QUOTE THEN <<QUOTE>>
    ELSE IF e = BSL THEN <<BSL>>
    ELSE IF e = "/" THEN <<"/">>
    ELSE IF e = "n" THEN <<NL>>
    ELSE IF e = "t" THEN <<"\t">>
    ELSE IF e = "r" THEN <<"\r">>
    ELSE IF e = "f" THEN <<"\f">>
    ELSE <<>>

\* The string whose opening quote is before s[j]; acc is what was read.
RECURSIVE ScanString(_, _, _)
ScanString(s, j, acc) ==
    IF j > Len(s) THEN JsonFail
    ELSE IF s[j] = QUOTE
         THEN [ok |-> TRUE, t |-> "str", s |-> acc, d |-> <<>>, next |-> j + 1]
    ELSE IF s[j] = BSL
         THEN IF j + 1 > Len(s) \/ Unescape(s[j + 1]) = <<>>
              THEN JsonFail
              ELSE ScanString(s, j + 2, acc \o Unescape(s[j + 1]))
    ELSE IF s[j] \in {NL, "\t", "\r", "\f"}
         THEN JsonFail      \* a control character in a string (strict mode)
    ELSE ScanString(s, j + 1, Append(acc, s[j]))

JsonObject(d, next) == [ok |-> TRUE, t |-> "obj", s |-> <<>>, d |-> d, next |-> next]

\* After a member "key": "val" of an object, at s[e]: 0 is an error, 1 the
\* end of the object, 2 another member.
AfterMember(s, e) ==
    IF e > Len(s) THEN 0
    ELSE IF s[e] = "}" THEN 1
    ELSE IF s[e] = "," THEN 2
    ELSE 0

\* The position of the value of a member whose key ends before s[k]; 0 when
\* no ':' and string follow.
MemberValueAt(s, k) ==
    LET AtColon(c) ==
            IF c > Len(s) \/ s[c] # ":" THEN 0
            ELSE LET AtValue(v) == IF v > Len(s) \/ s[v] # QUOTE THEN 0 ELSE v
                 IN  AtValue(SkipWs(s, c + 1))
    IN  AtColon(SkipWs(s, k))

\* The members of an object from s[i] on, after "{" or ","; acc is the dict.
RECURSIVE ParseMembers(_, _, _)
ParseMembers(s, i, acc) ==
    IF i > Len(s) \/ s[i] # QUOTE THEN JsonFail
    ELSE LET WithKey(key) ==
                 IF ~key.ok THEN JsonFail
                 ELSE LET WithValueAt(v) ==
                              IF v = 0 THEN JsonFail
                              ELSE LET WithValue(val) ==
                                           IF ~val.ok THEN JsonFail
                                           ELSE LET Rest(e, now) ==
                                                        IF AfterMember(s, e) = 1
                                                        THEN JsonObject(now, e + 1)
                                                        ELSE IF AfterMember(s, e) = 2
                                                        THEN ParseMembers(s, SkipWs(s, e + 1), now)
                                                        ELSE JsonFail
                                                IN  Rest(SkipWs(s, val.next),
                                                         DictSet(acc, key.s, val.s))
                                   IN  WithValue(ScanString(s, v + 1, <<>>))
                      IN  WithValueAt(MemberValueAt(s, key.next))
         IN  WithKey(ScanString(s, i + 1, <<>>))

\* The value starting at s[i].
ParseValue(s, i) ==
    IF i > Len(s) THEN JsonFail
    ELSE IF s[i] = QUOTE THEN ScanString(s, i + 1, <<>>)
    ELSE IF s[i] = "{"
         THEN LET Object(m) ==
                      IF m <= Len(s) /\ s[m] = "}" THEN JsonObject(<<>>, m + 1)
                      ELSE ParseMembers(s, m, <<>>)
              IN  Object(SkipWs(s, i + 1))
    ELSE JsonFail

\* json.loads(s): ok is FALSE where it raises JSONDecodeError (a ValueError).
JsonLoads(s) ==
    LET Whole(v) == IF v.ok /\ SkipWs(s, v.next) = Len(s) + 1 THEN v ELSE JsonFail
    IN  Whole(ParseValue(s, SkipWs(s, 1)))

\* repr(s) of a str of printable characters, "\n", "\t", "\r" and backslashes
ReprChar(c, q) ==
    IF c = BSL THEN <<BSL, BSL>>
    ELSE IF c = NL THEN <<BSL, "n">>
    ELSE IF c = "\t" THEN <<BSL, "t">>
    ELSE IF c = "\r" THEN <<BSL, "r">>
    ELSE IF c = q THEN <<BSL, q>>
    ELSE <<c>>

Repr(s) ==
    LET hasA == \E i \in 1..Len(s) : s[i] = APOS
        hasQ == \E i \in 1..Len(s) : s[i] = QUOTE
        q == IF hasA /\ ~hasQ THEN QUOTE ELSE APOS
    IN  <<q>> \o Concat([i \in 1..Len(s) |-> ReprChar(s[i], q)]) \o <<q>>

-----------------------------------------------------------------------------
(* The document codec: read_doc and write_doc *)

MARKER == <<"-", "-", "-">>
MsgNoMarker == <<"D", "a", "t", "a", " ", "f", "i", "l", "e", " ", "d", "o", "e", "s", " ", "n", "o", "t", " ", "s", "t", "a", "r", "t", " ", "w", "i", "t", "h", " ", BQ, "-", "-", "-", BQ>>
MsgDecode == <<"C", "o", "u", "l", "d", " ", "n", "o", "t", " ", "d", "e", "c", "o", "d", "e", " ", "J", "S", "O", "N", " ">>
SEPARATOR == <<NL, "+", "+", "+", NL, NL>>

\* One pass of the loop of read_doc over line: state is 'pre', 'json', 'skip'
\* or 'body'; js and bs are json_lines and body_lines.
ReadDocLine(line, state, js, bs) ==
    IF state = "pre"
    THEN IF line = <<>>
         THEN [raised |-> FALSE, state |-> "pre", json_lines |-> js, body_lines |-> bs]
         ELSE IF line # MARKER
         THEN [raised |-> TRUE, state |-> "pre", json_lines |-> js, body_lines |-> bs]
         ELSE [raised |-> FALSE, state |-> "json", json_lines |-> js, body_lines |-> bs]
    ELSE IF state = "json"
    THEN IF line = MARKER
         THEN [raised |-> FALSE, state |-> "skip", json_lines |-> js, body_lines |-> bs]
         ELSE [raised |-> FALSE, state |-> "json", json_lines |-> Append(js, line),
               body_lines |-> bs]
    ELSE IF state = "skip" /\ IsBlank(line)
    THEN [raised |-> FALSE, state |-> "skip", json_lines |-> js, body_lines |-> bs]
    ELSE [raised |-> FALSE, state |-> "body", json_lines |-> js,
          body_lines |-> Append(bs, line)]

\* The loop of read_doc over lines[i..].
RECURSIVE ReadDocLines(_, _, _, _, _)
ReadDocLines(lines, i, state, js, bs) ==
    IF i > Len(lines)
    THEN [raised |-> FALSE, state |-> state, json_lines |-> js, body_lines |-> bs]
    ELSE LET Step(st) ==
                 IF st.raised THEN st
                 ELSE ReadDocLines(lines, i + 1, st.state, st.json_lines, st.body_lines)
         IN  Step(ReadDocLine(lines[i], state, js, bs))

\* read_doc with the except clause swallowing the error of json.loads: an
\* empty header is returned for a header that is no JSON.
ReadDocResultSwallowed(json_raw, header, body_lines) ==
    [err |-> "ok", msg |-> <<>>,
     t |-> IF header.ok THEN header.t ELSE "obj",
     header |-> IF header.ok THEN header.d ELSE <<>>,
     s |-> IF header.ok THEN header.s ELSE <<>>,
     big |-> IF body_lines = <<>> THEN None ELSE Join(<<NL>>, body_lines)]

\* What read_doc does with a decoded header and the body lines.
ReadDocResult(json_raw, header, body_lines) ==
    IF ~header.ok
    THEN [err |-> "ValueError", msg |-> MsgDecode \o Repr(json_raw),
          t |-> "none", header |-> <<>>, s |-> <<>>, big |-> None]
    ELSE [err |-> "ok", msg |-> <<>>, t |-> header.t, header |-> header.d,
          s |-> header.s,
          big |-> IF body_lines = <<>> THEN None ELSE Join(<<NL>>, body_lines)]

\* read_doc(inp), inp.read() being text: err is "ok" or the exception raised;
\* t tells a header that is an object ("obj", in header) from one that is a
\* string ("str", in s); big is the body or None.
read_doc(text) ==
    LET Decode(st, json_raw) ==
            IF st.raised
            THEN [err |-> "ValueError", msg |-> MsgNoMarker,
                  t |-> "none", header |-> <<>>, s |-> <<>>, big |-> None]
            ELSE ReadDocResult(json_raw, JsonLoads(json_raw), st.body_lines)
        Lines(st) == Decode(st, Join(<<NL>>, st.json_lines))
    IN  Lines(ReadDocLines(SplitLines(text), 1, "pre", <<>>, <<>>))

\* What write_doc(out, big_field, data) writes to out.
write_doc(big, doc) ==
    JsonDump(doc) \o SEPARATOR \o (IF big # None THEN big ELSE <<>>) \o <<NL>>

-----------------------------------------------------------------------------
(* The filesystem: os.path.exists, os.mkdir, open, os.listdir, os.walk *)

\* A path is the sequence of its components below self.path, which is
\* absolute (site_db passes os.path.abspath(path)); <<>> is self.path itself.
Dir == [dir |-> TRUE, data |-> <<>>]
File(text) == [dir |-> FALSE, data |-> text]

Exists(f, p) == p \in DOMAIN f
IsDir(f, p) == p \in DOMAIN f /\ f[p].dir
IsFile(f, p) == p \in DOMAIN f /\ ~f[p].dir

Parent(p) == SubSeq(p, 1, Len(p) - 1)
IsPrefix(p, q) == Len(p) <= Len(q) /\ SubSeq(q, 1, Len(p)) = p

\* The error of walking to the parent of p: the first component that is
\* missing (ENOENT) or is no directory (ENOTDIR) decides.
RECURSIVE LookupError(_, _, _)
LookupError(f, p, i) ==
    IF i >= Len(p) THEN "ok"
    ELSE IF ~Exists(f, SubSeq(p, 1, i)) THEN "FileNotFoundError"
    ELSE IF ~IsDir(f, SubSeq(p, 1, i)) THEN "NotADirectoryError"
    ELSE LookupError(f, p, i + 1)

\* os.mkdir(p), the parent of self.path being an existing directory
Mkdir(f, p) ==
    LET e == LookupError(f, p, 0)
    IN  IF e # "ok" THEN [fs |-> f, err |-> e]
        ELSE IF Exists(f, p) THEN [fs |-> f, err |-> "FileExistsError"]
        ELSE [fs |-> (p :> Dir) @@ f, err |-> "ok"]

\* with open(p, 'w') as out: out.write(text)
OpenWrite(f, p, text) ==
    LET e == LookupError(f, p, 0)
    IN  IF e # "ok" THEN [fs |-> f, err |-> e]
        ELSE IF IsDir(f, p) THEN [fs |-> f, err |-> "IsADirectoryError"]
        ELSE [fs |-> (p :> File(text)) @@ f, err |-> "ok"]

\* os.listdir(p) (and the scandir of os.walk): the entries of p, in the order
\* the operating system gives them, which is order (all names, in some
\* order), from order[i] on.
RECURSIVE Listing(_, _, _, _)
Listing(f, p, order, i) ==
    IF i > Len(order) THEN <<>>
    ELSE (IF Exists(f, Append(p, order[i])) THEN <<order[i]>> ELSE <<>>)
         \o Listing(f, p, order, i + 1)

ListDir(f, p, order) == Listing(f, p, order, 1)

\* The names among names[i..] that are directories of p (dirs TRUE) or are
\* not (dirs FALSE).
RECURSIVE Entries(_, _, _, _, _)
Entries(f, p, names, i, dirs) ==
    IF i > Len(names) THEN <<>>
    ELSE (IF IsDir(f, Append(p, names[i])) = dirs THEN <<names[i]>> ELSE <<>>)
         \o Entries(f, p, names, i + 1, dirs)

\* os.walk(top): top-down, one entry per directory, with its non-directories;
\* nothing at all when top is no directory (the scandir error is ignored).
RECURSIVE Walk(_, _, _)
Walk(f, top, order) ==
    IF ~IsDir(f, top) THEN <<>>
    ELSE LET names == ListDir(f, top, order)
             dirs == Entries(f, top, names, 1, TRUE)
             nondirs == Entries(f, top, names, 1, FALSE)
         IN  <<[dir_path |-> top, fns |-> nondirs]>>
             \o Concat([i \in 1..Len(dirs) |-> Walk(f, Append(top, dirs[i]), order)])

-----------------------------------------------------------------------------
(* FlatDocumentStorage *)

\* The field names site_db configures: 'slug' and 'content'.
pkey_field == <<"s", "l", "u", "g">>
content_field == <<"c", "o", "n", "t", "e", "n", "t">>

\* hash(str): an integer fixed by the string and, on the strings of the
\* model, different for different strings.
HashChars == <<"/", "d", "e", "f", "g", "t", "u">>
HashCode(c) == IF \E i \in 1..Len(HashChars) : HashChars[i] = c
               THEN CHOOSE i \in 1..Len(HashChars) : HashChars[i] = c
               ELSE 0
RECURSIVE Hash(_)
Hash(str) ==
    IF str = <<>> THEN 0
    ELSE Hash(SubSeq(str, 1, Len(str) - 1)) * (Len(HashChars) + 1)
         + HashCode(str[Len(str)])

\* read(), lines 26-27: the components of the table-relative directory rel;
\* a list for the table directory itself, else the tuple
\* os.path.split(rel_path)[1:], which holds the last component alone.
Components(rel) ==
    IF rel = <<>> THEN [list |-> TRUE, items |-> <<>>]
    ELSE [list |-> FALSE, items |-> <<rel[Len(rel)]>>]

\* read(), lines 35-44: r is what read_doc gave for the file named doc_name.
AddDoc(r, big_name, doc_name, tbl) ==
    IF r.err # "ok" THEN [err |-> r.err, msg |-> r.msg, tbl |-> tbl]
    ELSE IF r.t # "obj"
    THEN [err |-> "TypeError", msg |-> <<>>, tbl |-> tbl]   \* str[...] = ...
    ELSE LET withBig == IF r.big # None THEN DictSet(r.header, big_name, r.big)
                        ELSE r.header
         IN  [err |-> "ok", msg |-> <<>>,
              tbl |-> DictSet(tbl, Hash(doc_name),
                              DictSet(withBig, pkey_field, doc_name))]

\* read(), lines 32-44, for the file fn of directory dir_path of the table at
\* tbl_path: tbl with the document added, or the exception.
ReadFile(f, big_name, tbl_path, dir_path, fn, tbl) ==
    LET Named(components) ==
            IF components.list
            THEN [err |-> "TypeError", msg |-> <<>>, tbl |-> tbl]   \* list + tuple
            ELSE AddDoc(read_doc(f[Append(dir_path, fn)].data), big_name,
                        Join(<<"/">>, Append(components.items, fn)), tbl)
    IN  Named(Components(SubSeq(dir_path, Len(tbl_path) + 1, Len(dir_path))))

\* The files the loops of lines 22 and 31 visit, in order: for each entry
\* of the walk, each of its fns.
WalkFiles(walk) ==
    Concat([w \in 1..Len(walk) |->
               [k \in 1..Len(walk[w].fns) |->
                   [dir_path |-> walk[w].dir_path, fn |-> walk[w].fns[k]]]])

\* read(), lines 22-44: the loops over the walk of one table, from the i-th
\* file visited on.
RECURSIVE ReadTable(_, _, _, _, _, _)
ReadTable(f, big_name, tbl_path, files, i, tbl) ==
    IF i > Len(files) THEN [err |-> "ok", msg |-> <<>>, tbl |-> tbl]
    ELSE LET Step(r) ==
                 IF r.err # "ok" THEN r
                 ELSE ReadTable(f, big_name, tbl_path, files, i + 1, r.tbl)
         IN  Step(ReadFile(f, big_name, tbl_path, files[i].dir_path, files[i].fn, tbl))

\* read(), lines 19-45: the loop over os.listdir(self.path), from entry i on.
RECURSIVE ReadTables(_, _, _, _, _, _)
ReadTables(f, big_name, names, order, i, tables) ==
    IF i > Len(names) THEN [kind |-> "tables", err |-> "ok", msg |-> <<>>, val |-> tables]
    ELSE LET Step(r) ==
                 IF r.err # "ok"
                 THEN [kind |-> "raised", err |-> r.err, msg |-> r.msg, val |-> <<>>]
                 ELSE ReadTables(f, big_name, names, order, i + 1,
                                 DictSet(tables, names[i], r.tbl))
         IN  Step(ReadTable(f, big_name, <<names[i]>>,
                            WalkFiles(Walk(f, <<names[i]>>, order)), 1, <<>>))

\* read(): kind is "none" (None returned), "tables" (val is the dict
\* returned) or "raised" (err is the exception, msg its message).
read(f, big_name, order) ==
    IF ~Exists(f, <<>>)
    THEN [kind |-> "none", err |-> "ok", msg |-> <<>>, val |-> <<>>]
    ELSE ReadTables(f, big_name, ListDir(f, <<>>, order), order, 1, <<>>)

\* The path a key names below its table directory: os.path.join(table_path,
\* key), for keys that are names joined by "/".
KeyPath(key) == Split(key, "/")

\* write(), lines 117-121: the pops of the primary key and of the big field
\* from doc_data: what is left of the dict, and the values popped.
PopFields(doc_data, big_name) ==
    LET popped == DictDel(doc_data, pkey_field)
    IN  [key |-> DictGet(doc_data, pkey_field),
         big |-> IF big_name # None /\ DictHas(popped, big_name)
                 THEN DictGet(popped, big_name) ELSE None,
         rest |-> IF big_name # None THEN DictDel(popped, big_name) ELSE popped]

\* write(), lines 116-126: the loop over the documents of table ti, from
\* document di on.  The pops change the caller's dicts.
RECURSIVE WriteDocs(_, _, _, _, _)
WriteDocs(f, big_name, d, ti, di) ==
    IF di > Len(d[ti][2]) THEN [fs |-> f, data |-> d, err |-> "ok"]
    ELSE IF ~DictHas(d[ti][2][di][2], pkey_field)
    THEN [fs |-> f, data |-> d, err |-> "KeyError"]
    ELSE LET Store(pop) ==
                 LET Stored(out, now) ==
                         IF out.err # "ok"
                         THEN [fs |-> f, data |-> now, err |-> out.err]
                         ELSE WriteDocs(out.fs, big_name, now, ti, di + 1)
                 IN  Stored(OpenWrite(f, <<d[ti][1]>> \o KeyPath(pop.key),
                                      write_doc(pop.big, pop.rest)),
                            [d EXCEPT ![ti][2][di][2] = pop.rest])
         IN  Store(PopFields(d[ti][2][di][2], big_name))

\* The loop over the tables as it would be if write() brought each table
\* directory in line with the snapshot, emptying it before writing into it.
RECURSIVE WriteTablesFresh(_, _, _, _)
WriteTablesFresh(f, big_name, d, ti) ==
    IF ti > Len(d) THEN [fs |-> f, data |-> d, err |-> "ok"]
    ELSE LET Emptied(g) ==
                 LET Made(made) ==
                         IF made.err # "ok" THEN [fs |-> g, data |-> d, err |-> made.err]
                         ELSE LET Written(r) ==
                                      IF r.err # "ok" THEN r
                                      ELSE WriteTablesFresh(r.fs, big_name, r.data, ti + 1)
                              IN  Written(WriteDocs(made.fs, big_name, d, ti, 1))
                 IN  Made(IF ~Exists(g, <<d[ti][1]>>) THEN Mkdir(g, <<d[ti][1]>>)
                          ELSE [fs |-> g, err |-> "ok"])
         IN  Emptied([p \in {q \in DOMAIN f :
                                ~(Len(q) > 1 /\ IsPrefix(<<d[ti][1]>>, q))} |-> f[p]])

\* write(), lines 111-126: the loop over the tables, from table ti on.
RECURSIVE WriteTables(_, _, _, _)
WriteTables(f, big_name, d, ti) ==
    IF ti > Len(d) THEN [fs |-> f, data |-> d, err |-> "ok"]
    ELSE LET Made(made) ==
                 IF made.err # "ok" THEN [fs |-> f, data |-> d, err |-> made.err]
                 ELSE LET Written(r) ==
                              IF r.err # "ok" THEN r
                              ELSE WriteTables(r.fs, big_name, r.data, ti + 1)
                      IN  Written(WriteDocs(made.fs, big_name, d, ti, 1))
         IN  Made(IF ~Exists(f, <<d[ti][1]>>) THEN Mkdir(f, <<d[ti][1]>>)
                  ELSE [fs |-> f, err |-> "ok"])

\* write(data) without the test of self.read_only.
WriteUnguarded(f, ro, big_name, d) ==
    LET Made(made) ==
            IF made.err # "ok" THEN [fs |-> f, data |-> d, err |-> made.err]
            ELSE WriteTables(made.fs, big_name, d, 1)
    IN  Made(IF ~Exists(f, <<>>) THEN Mkdir(f, <<>>)
             ELSE [fs |-> f, err |-> "ok"])

\* write(data): the tree and the caller's snapshot afterwards, and the
\* exception raised ("ok" for none).
write(f, ro, big_name, d) ==
    IF ro THEN [fs |-> f, data |-> d, err |-> "ok"]
    ELSE LET Made(made) ==
                 IF made.err # "ok" THEN [fs |-> f, data |-> d, err |-> made.err]
                 ELSE WriteTables(made.fs, big_name, d, 1)
         IN  Made(IF ~Exists(f, <<>>) THEN Mkdir(f, <<>>)
                  ELSE [fs |-> f, err |-> "ok"])

-----------------------------------------------------------------------------
(* The inputs of the model *)

TableNames == {<<"t">>, <<"u">>}    \* names of entries of the root
DirNames == {<<"d">>}               \* names of directories below a table
FileNames == {<<"f">>}              \* names of files below a table
AllNames == TableNames \cup DirNames \cup FileNames

\* The orders in which a directory listing gives the names: any two entries
\* can come either way round, so the model takes one order of all the names
\* and its reverse.
NameOrder == <<<<"d">>, <<"f">>, <<"t">>, <<"u">>>>
Reverse(q) == [i \in 1..Len(q) |-> q[Len(q) + 1 - i]]
Orders == {NameOrder, Reverse(NameOrder)}

\* Sequences over S of length at most n.
RECURSIVE SeqsUpTo(_, _)
SeqsUpTo(S, n) ==
    IF n = 0 THEN {<<>>}
    ELSE LET shorter == SeqsUpTo(S, n - 1)
         IN  shorter \cup {Append(q, x) : q \in shorter, x \in S}

\* Table-relative directories and table-relative files of up to MaxDepth
\* components.
RelDirs == SeqsUpTo(DirNames, MaxDepth - 1)
RelFiles == {Append(q, n) : q \in RelDirs, n \in FileNames}

\* Files as a site author leaves them in the content directory: front matter
\* with a body, without one, with a header that is no JSON.
FrontMatterBody == <<"-", "-", "-", NL, "{", QUOTE, "a", QUOTE, ":", " ", QUOTE, "x", QUOTE, "}", NL, "-", "-", "-", NL, NL, "h", "i", NL>>
FrontMatterOnly == <<"-", "-", "-", NL, "{", QUOTE, "a", QUOTE, ":", " ", QUOTE, "x", QUOTE, "}", NL, "-", "-", "-", NL>>
FrontMatterBad == <<"-", "-", "-", NL, "{", "b", "a", "d", " ", "j", "s", "o", "n", NL, "-", "-", "-", NL>>
EnvTexts == {FrontMatterBody, FrontMatterOnly, FrontMatterBad}

\* The documents a caller puts in a snapshot: a field 'a', the primary key
\* (the key of a file, or the name of a directory) and the body (or none).
FieldA == <<<<"a">>, <<"x">>>>
Bodies == {<<"h", "i">>}
FileKeys == {Join(<<"/">>, q) : q \in RelFiles}
Docs ==
    LET keyed == {<<<<pkey_field, k>>, FieldA>> : k \in FileKeys}
    IN  keyed
        \cup {Append(d, <<content_field, b>>) : d \in keyed, b \in Bodies}
        \cup {<<<<pkey_field, k>>, FieldA>> : k \in DirNames}

\* dicts of up to n values from V, under the keys 1..n
DictsOf(V, n) ==
    {[i \in 1..Len(q) |-> <<i, q[i]>>] : q \in SeqsUpTo(V, n)}

\* The snapshots given to write(): the table 't', of up to MaxDocs documents
\* (the root entry 'u' is then a table, or a file, the snapshot does not name).
Snapshots == {<<<<<<"t">>, docs>>>> : docs \in DictsOf(Docs, MaxDocs)}

\* A content directory as a site keeps it: a table directory with a document
\* in a subdirectory.
SiteTree ==
    (<<>> :> Dir) @@ (<<<<"t">>>> :> Dir) @@ (<<<<"t">>, <<"d">>>> :> Dir)
    @@ (<<<<"t">>, <<"d">>, <<"f">>>> :> File(FrontMatterBody))

-----------------------------------------------------------------------------
(* The state machine *)

NoRet == [kind |-> "none", err |-> "ok", msg |-> <<>>, val |-> <<>>]

\* The engine as constructed, over a root that does not exist yet or over a
\* content directory.
Init ==
    /\ fs \in {<<>>, SiteTree}
    /\ read_only \in BOOLEAN
    /\ big_field \in {None, content_field}
    /\ read_only => big_field = content_field     \* as site_db constructs it
    /\ op = "init"
    /\ data = <<>>
    /\ given = <<>>
    /\ fs0 = <<>>
    /\ ret = NoRet
    /\ werr = "none"
    /\ inp = <<>>
    /\ envSteps = 0

\* f with the directories down to p made (os.makedirs)
RECURSIVE MakeDirs(_, _)
MakeDirs(f, p) ==
    IF Exists(f, p) THEN f
    ELSE IF p = <<>> THEN (p :> Dir) @@ f
    ELSE (p :> Dir) @@ MakeDirs(f, Parent(p))

CanMake(f, p) ==
    /\ ~Exists(f, p)
    /\ \A i \in 0..(Len(p) - 1) :
           Exists(f, SubSeq(p, 1, i)) => IsDir(f, SubSeq(p, 1, i))

\* Before the engine is used, a directory appears below the root (or the
\* root itself).
EnvMkdir ==
    /\ op \in {"init", "env"}
    /\ envSteps < MaxEnv
    /\ \E p \in {<<>>} \cup {<<t>> \o q : t \in TableNames, q \in RelDirs} :
           /\ CanMake(fs, p)
           /\ fs' = MakeDirs(fs, p)
    /\ op' = "env"
    /\ envSteps' = envSteps + 1
    /\ UNCHANGED <<read_only, big_field, data, given, fs0, ret, werr, inp>>

\* Before the engine is used, a file appears in the root or below a table.
EnvPutFile ==
    /\ op \in {"init", "env"}
    /\ envSteps < MaxEnv
    /\ \E p \in {<<t>> : t \in TableNames}
                \cup {<<t>> \o q : t \in TableNames, q \in RelFiles},
          text \in EnvTexts :
           /\ CanMake(fs, p)
           /\ fs' = (p :> File(text)) @@ MakeDirs(fs, Parent(p))
    /\ op' = "env"
    /\ envSteps' = envSteps + 1
    /\ UNCHANGED <<read_only, big_field, data, given, fs0, ret, werr, inp>>

\* storage.read()
Read ==
    /\ \E order \in Orders : ret' = read(fs, big_field, order)
    /\ op' = "read"
    /\ UNCHANGED <<fs, read_only, big_field, data, given, fs0, werr, inp, envSteps>>

WriteCall(s) ==
    LET Done(w) ==
            /\ fs' = w.fs
            /\ data' = w.data
            /\ ret' = [kind |-> IF w.err = "ok" THEN "none" ELSE "raised",
                       err |-> w.err, msg |-> <<>>, val |-> <<>>]
            /\ werr' = w.err
    IN  /\ Done(write(fs, read_only, big_field, s))
        /\ given' = s
        /\ fs0' = fs
        /\ op' = "write"
        /\ UNCHANGED <<read_only, big_field, inp, envSteps>>

\* storage.write(data) with the snapshot the caller has built
Write ==
    /\ given = <<>> /\ data = <<>>
    /\ \E s \in Snapshots : WriteCall(s)

\* storage.write(data) again, with the very snapshot written before
WriteAgain ==
    /\ op \in {"write", "read"}
    /\ given # <<>>
    /\ WriteCall(data)

Next == EnvMkdir \/ EnvPutFile \/ Read \/ Write \/ WriteAgain

Spec == Init /\ [][Next]_vars

-----------------------------------------------------------------------------
(* The codec on its own: read_doc on every short header text *)

HeaderChars == {"{", "}", QUOTE, APOS, BSL, NL, "-", "x"}
HeaderTexts == Texts(HeaderChars, MaxHdr)

\* The files a header text h is tried in: between markers, with blank lines
\* and a body around, with no closing marker, and with no marker at all.
CodecShapes == {"closed", "body", "open", "bare"}
CodecText(h, shape) ==
    IF shape = "closed" THEN MARKER \o <<NL>> \o h \o <<NL>> \o MARKER \o <<NL>>
    ELSE IF shape = "body"
    THEN <<NL>> \o MARKER \o <<NL>> \o h \o <<NL>> \o MARKER \o <<NL, NL, "x", NL>>
    ELSE IF shape = "open" THEN MARKER \o <<NL>> \o h
    ELSE h \o SEPARATOR \o <<"x", NL>>
CodecTexts == {CodecText(h, shape) : h \in HeaderTexts, shape \in CodecShapes}

\* read_doc(inp) on a file of its own
Decode ==
    /\ op = "init"
    /\ \E text \in CodecTexts :
           /\ inp' = text
           /\ ret' = read_doc(text)
    /\ op' = "decode"
    /\ UNCHANGED <<fs, read_only, big_field, data, given, fs0, werr, envSteps>>

\* The engine as site_db constructs it.
CodecInit == Init /\ fs = <<>> /\ read_only /\ big_field = content_field

CodecSpec == CodecInit /\ [][Decode]_vars

-----------------------------------------------------------------------------
(* Vocabulary of the claims *)

\* The <<table name, document>> pairs of snapshot d.
Pairs(d) ==
    UNION {{<<d[i][1], d[i][2][j][2]>> : j \in 1..Len(d[i][2])} : i \in 1..Len(d)}

\* The files the documents of snapshot d are written to.
Targets(d) ==
    {<<td[1]>> \o KeyPath(DictGet(td[2], pkey_field)) :
        td \in {x \in Pairs(d) : DictHas(x[2], pkey_field)}}

Files(f) == {p \in DOMAIN f : ~f[p].dir}
Subdirs(f) == {p \in DOMAIN f : Len(p) = 1 /\ f[p].dir}

\* The documents read() returned for table t.
ReadDocs(t) ==
    IF ret.kind = "tables" /\ DictHas(ret.val, t)
    THEN {DictGet(ret.val, t)[i][2] : i \in 1..Len(DictGet(ret.val, t))}
    ELSE {}

\* A file read_doc decodes to a JSON object.
WellFormed(text) == read_doc(text).err = "ok" /\ read_doc(text).t = "obj"

-----------------------------------------------------------------------------
(* C1: round trip.  A read() that follows a write() that stored documents   *)
(* on an engine that is not read-only succeeds, and in each table written   *)
(* it holds, for each document given, a document equal to it: its fields,   *)
(* its primary key and, exactly when a body was given, its big field.       *)
C1_RoundTrip ==
    (op = "read" /\ ~read_only /\ werr = "ok" /\ Pairs(given) # {}
        /\ \A td \in Pairs(given) : DictHas(td[2], pkey_field))
    => /\ ret.kind = "tables"
       /\ \A td \in Pairs(given) : \E doc \in ReadDocs(td[1]) : DictEq(doc, td[2])

(* C2: read-only no-op.  write() on a read-only engine leaves the whole     *)
(* tree at the root as it was, whatever the snapshot and the tree, and       *)
(* raises nothing.                                                           *)
C2_ReadOnlyNoOp ==
    (op = "write" /\ read_only) => (fs = fs0 /\ ret.err = "ok")

\* A read-only write() was given a document for a file that did not exist,
\* in a tree that held a file.
C2_Witness ==
    /\ op = "write" /\ read_only
    /\ Files(fs0) # {}
    /\ \E p \in Targets(given) : ~Exists(fs0, p)

(* C3: hierarchical keys on read.  For every file in a subdirectory of a    *)
(* table directory, at any depth, read() yields in that table a document    *)
(* whose primary key is the file's whole table-relative path joined by '/'. *)
C3_FullKey ==
    (op = "read" /\ ret.kind = "tables")
    => \A p \in Files(fs) :
           Len(p) >= 3
           => \E doc \in ReadDocs(p[1]) :
                  DictGet(doc, pkey_field) = Join(<<"/">>, Tail(p))

(* C4: write() makes the directories a key needs.  On an engine that is not *)
(* read-only, a write() of documents whose keys name files, where nothing   *)
(* on disk stands in the way (no file where a directory is needed, no        *)
(* directory where the file goes), raises nothing, and afterwards every      *)
(* document's file exists at <root>/<table>/<key>.                           *)
C4_MakesDirs ==
    (op = "write" /\ ~read_only
        /\ \A td \in Pairs(given) : DictHas(td[2], pkey_field)
        /\ \A p \in Targets(given) :
               /\ ~IsDir(fs0, p)
               /\ \A i \in 0..(Len(p) - 1) : ~IsFile(fs0, SubSeq(p, 1, i)))
    => (ret.err = "ok" /\ \A p \in Targets(given) : IsFile(fs, p))

(* C5: flat tables.  When every entry of the root is a directory that holds *)
(* well-formed document files and no subdirectory, read() raises nothing    *)
(* and each table has one document per file, its primary key the file name. *)
C5_FlatTables ==
    (op = "read" /\ Exists(fs, <<>>)
        /\ \A p \in DOMAIN fs :
               /\ Len(p) = 1 => fs[p].dir
               /\ Len(p) = 2 => ~fs[p].dir /\ WellFormed(fs[p].data)
               /\ Len(p) <= 2)
    => /\ ret.kind = "tables"
       /\ \A t \in Subdirs(fs) :
              {DictGet(doc, pkey_field) : doc \in ReadDocs(t[1])}
                  = {p[2] : p \in {q \in Files(fs) : q[1] = t[1]}}

(* C6: no stale deletion.  write() leaves every file that is not the target *)
(* of a document of the snapshot present and unchanged, and removes no       *)
(* directory (so no table directory the snapshot does not name).             *)
C6_NoStaleDeletion ==
    op = "write"
    => \A p \in DOMAIN fs0 :
           /\ Exists(fs, p)
           /\ fs0[p].dir => fs[p].dir
           /\ p \notin Targets(given) => fs[p] = fs0[p]

\* A write() stored a document while the tree held another file and a table
\* directory the snapshot does not name.
C6_Witness ==
    /\ op = "write" /\ ret.err = "ok" /\ fs # fs0
    /\ \E p \in Files(fs0) : p \notin Targets(given)
    /\ \E t \in Subdirs(fs0) : ~DictHas(given, t[1])

\* The header segment of a file, as the front-matter format has it: the
\* lines after the first line that is not empty, up to the next line '---'
\* or the end of the file, joined by "\n".  Structured: that first line is
\* '---'.
FirstLine(lines) ==
    IF \E i \in 1..Len(lines) : lines[i] # <<>>
    THEN CHOOSE i \in 1..Len(lines) :
             lines[i] # <<>> /\ \A j \in 1..(i - 1) : lines[j] = <<>>
    ELSE 0
Structured(text) ==
    LET lines == SplitLines(text)
    IN  FirstLine(lines) # 0 /\ lines[FirstLine(lines)] = MARKER
HeaderOf(text) ==
    LET lines == SplitLines(text)
        m == FirstLine(lines)
        closing == {j \in (m + 1)..Len(lines) : lines[j] = MARKER}
        last == IF closing = {} THEN Len(lines)
                ELSE (CHOOSE j \in closing : \A k \in closing : j <= k) - 1
    IN  Join(<<NL>>, SubSeq(lines, m + 1, last))

\* Text that repr() leaves as it is: no backslash, no line break or other
\* control character, and not both kinds of quote.
Plain(h) ==
    /\ \A i \in 1..Len(h) : h[i] \notin {BSL, NL, "\t", "\r", "\f"}
    /\ ~((\E i \in 1..Len(h) : h[i] = APOS) /\ (\E i \in 1..Len(h) : h[i] = QUOTE))

\* read_doc was given a file with a header segment that is no JSON.
MalformedHeader ==
    op = "decode" /\ Structured(inp) /\ ~JsonLoads(HeaderOf(inp)).ok

(* C7, as amended: a malformed header surfaces its text.  Decoding a file   *)
(* whose header segment is no JSON raises ValueError, returns no document,   *)
(* and the message is 'Could not decode JSON ' and the repr() of the header  *)
(* text; it holds the header text literally when that text is plain.         *)
C7_MalformedHeaderRepr ==
    MalformedHeader
    => /\ ret.err = "ValueError"
       /\ ret.t = "none" /\ ret.header = <<>>
       /\ ret.msg = MsgDecode \o Repr(HeaderOf(inp))
       /\ Plain(HeaderOf(inp)) => Contains(ret.msg, HeaderOf(inp))

\* read_doc raised on a plain header of several characters that is no JSON.
C7_Witness ==
    /\ MalformedHeader
    /\ Plain(HeaderOf(inp)) /\ Len(HeaderOf(inp)) >= 2
    /\ ret.err = "ValueError"

(* C7, as claimed: decoding any file whose header segment is no JSON raises *)
(* an error whose message contains the literal header text, and returns no  *)
(* document.                                                                 *)
C7_LiteralHeaderText ==
    MalformedHeader
    => /\ ret.err = "ValueError"
       /\ ret.t = "none"
       /\ Contains(ret.msg, HeaderOf(inp))

(* C8: tables are the subdirectories of the root.  When the root exists,    *)
(* read() returns one table for each immediate subdirectory of the root,    *)
(* named after it, and no table for any other entry of the root; a           *)
(* subdirectory with no file below it gives an empty table, and a root with  *)
(* no file below its subdirectories raises nothing.                          *)
C8_TablesAreSubdirs ==
    (op = "read" /\ Exists(fs, <<>>))
    => /\ ret.kind = "tables"
          => /\ DictKeys(ret.val) = {t[1] : t \in Subdirs(fs)}
             /\ \A t \in Subdirs(fs) :
                    (\A p \in Files(fs) : p[1] # t[1]) => ReadDocs(t[1]) = {}
       /\ (\A p \in Files(fs) : Len(p) = 1) => ret.kind = "tables"

(* C9: the body goes under the big field only.  A document read() returns  *)
(* never has the key None, and on an engine with no big field it has the    *)
(* fields of some file's header and the primary key, and no other.          *)
C9_NoNoneKey ==
    (op = "read" /\ ret.kind = "tables")
    => \A t \in DictKeys(ret.val) : \A doc \in ReadDocs(t) :
           /\ ~DictHas(doc, None)
           /\ big_field = None
              => \E p \in Files(fs) :
                     /\ p[1] = t /\ Len(p) >= 2
                     /\ DictKeys(doc)
                          = DictKeys(read_doc(fs[p].data).header) \cup {pkey_field}

(* C10: write() does not change the snapshot it is given: after a write()   *)
(* on an engine that is not read-only the caller's snapshot has the fields  *)
(* and values it had (so it can be written again).                          *)
C10_SnapshotUnchanged ==
    (op = "write" /\ ~read_only) => data = given

====
